---- MODULE Spec2Model ----
(***************************************************************************)
(* Price optimizer: src/src/data_io.py, src/src/demand.py,                 *)
(* src/src/optimize.py, src/src/report.py and the caller flow of           *)
(* src/app.py.                                                             *)
(*                                                                         *)
(* Tables (pandas DataFrames) are sequences of records, in row order.      *)
(* Real numbers are exact rationals [num, den] in lowest terms with        *)
(* den > 0; money is in currency units, so that round(x, 2) is rounding    *)
(* to a multiple of 1/100.                                                 *)
(***************************************************************************)
EXTENDS Integers, Sequences, FiniteSets, TLC

VARIABLES pc, raw, df, elas, base, lb, ub, min_margin, cand, sel, chosen, rep

vars == <<pc, raw, df, elas, base, lb, ub, min_margin, cand, sel, chosen, rep>>

(***************************************************************************)
(* Bounds of the model.                                                    *)
(***************************************************************************)
MaxRows == 3

Skus == <<"A", "B">>

SkuSet == {Skus[i] : i \in 1..Len(Skus)}

Dates == {1, 2}

(***************************************************************************)
(* Exact rational arithmetic (Python floats, up to rounding error).        *)
(***************************************************************************)
Abs(a) == IF a < 0 THEN -a ELSE a

RECURSIVE GCD(_, _)
GCD(a, b) == IF b = 0 THEN a ELSE GCD(b, a % b)

Q(a, b) ==
    LET s == IF b < 0 THEN -1 ELSE 1
        g == GCD(Abs(a), Abs(b))
    IN  [num |-> (s * a) \div g, den |-> (s * b) \div g]

Zero == Q(0, 1)

One == Q(1, 1)

Cents(k) == Q(k, 100)

QAdd(x, y) == Q(x.num * y.den + y.num * x.den, x.den * y.den)

QSub(x, y) == Q(x.num * y.den - y.num * x.den, x.den * y.den)

QMul(x, y) == Q(x.num * y.num, x.den * y.den)

QDiv(x, y) == Q(x.num * y.den, x.den * y.num)

QLt(x, y) == x.num * y.den < y.num * x.den

QLe(x, y) == x.num * y.den <= y.num * x.den

QMax(x, y) == IF QLt(x, y) THEN y ELSE x

RECURSIVE QPowNat(_, _)
QPowNat(x, k) == IF k = 0 THEN One ELSE QMul(x, QPowNat(x, k - 1))

\* x ** e for an integral exponent e (given as a rational with den = 1).
\* A fractional exponent has no rational value; no input of the model
\* produces one where the power is taken.
QPow(x, e) ==
    LET k == CHOOSE n \in -8..8 : Q(n, 1) = e
    IN  IF k >= 0 THEN QPowNat(x, k) ELSE QPowNat(QDiv(One, x), -k)

RECURSIVE QSum(_)
QSum(s) == IF s = <<>> THEN Zero ELSE QAdd(Head(s), QSum(Tail(s)))

QMean(s) == QDiv(QSum(s), Q(Len(s), 1))

RECURSIVE IntPow2(_)
IntPow2(k) == IF k = 0 THEN 1 ELSE 2 * IntPow2(k - 1)

(***************************************************************************)
(* Table helpers.                                                          *)
(***************************************************************************)
Column(t, f) == [i \in 1..Len(t) |-> t[i][f]]

RowsOf(t, sku) == SelectSeq(t, LAMBDA r : r.sku = sku)

SkusOf(t) == {t[i].sku : i \in 1..Len(t)}

\* The keys of a groupby("sku"), in pandas' sorted key order.
GroupKeys(t) == SelectSeq(Skus, LAMBDA s : s \in SkusOf(t))

RECURSIVE Concat(_)
Concat(ss) == IF ss = <<>> THEN <<>> ELSE Head(ss) \o Concat(Tail(ss))

(***************************************************************************)
(* data_io.load_sales, on rows whose fields are all present and numeric    *)
(* (the two dropna calls and to_numeric leave such rows as they are).      *)
(***************************************************************************)
WithDerived(r) ==
    [date |-> r.date, sku |-> r.sku, price |-> r.price, units |-> r.units,
     cost |-> r.cost, rev |-> QMul(r.price, r.units),
     margin_unit |-> QSub(r.price, r.cost)]

load_sales(t) ==
    LET kept == SelectSeq(t, LAMBDA r : QLt(Zero, r.price))
    IN  [i \in 1..Len(kept) |-> WithDerived(kept[i])]

(***************************************************************************)
(* data_io.latest_baseline                                                 *)
(***************************************************************************)
MaxDate(t, sku) ==
    CHOOSE d \in {r.date : r \in {t[i] : i \in 1..Len(t)}} :
        /\ \E i \in 1..Len(t) : t[i].sku = sku /\ t[i].date = d
        /\ \A i \in 1..Len(t) : t[i].sku = sku => t[i].date <= d

\* mutant: the latest-date mask is not applied
LatestRows_All(t) == t

LatestRows(t) == SelectSeq(t, LAMBDA r : r.date = MaxDate(t, r.sku))

BaselineRow(g, sku) ==
    [sku |-> sku,
     base_price |-> QMean(Column(g, "price")),
     base_units |-> QMean(Column(g, "units")),
     cost |-> QMean(Column(g, "cost"))]

latest_baseline(t) ==
    LET latest == LatestRows(t)
        keys == GroupKeys(latest)
    IN  [k \in 1..Len(keys) |-> BaselineRow(RowsOf(latest, keys[k]), keys[k])]

(***************************************************************************)
(* demand.estimate_elasticity                                              *)
(***************************************************************************)
DefaultElasticity == -1

MinObservations == 3

\* np.log of a price of 2^k hundredths and of a unit count of 2^k, in units
\* of log 2 and up to the additive constant log 100: the fitted slope of a
\* regression with intercept depends on neither.  Every positive price of
\* the model is 2^k hundredths and every positive unit count is 2^k.
Log2Int(n) == CHOOSE k \in 0..8 : IntPow2(k) = n

LogPrice(p) == Log2Int(QMul(p, Q(100, 1)).num)

LogUnits(u) == Log2Int(u.num)

RECURSIVE IntSum(_)
IntSum(s) == IF s = <<>> THEN 0 ELSE Head(s) + IntSum(Tail(s))

\* LinearRegression().fit(X, y).coef_[0]: the least-squares slope; when
\* every X is the same the centred design is zero and the minimum-norm
\* least-squares solution is slope 0.
FitSlope(X, y) ==
    LET n == Len(X)
        sx == IntSum(X)
        sy == IntSum(y)
        sxy == IntSum([i \in 1..n |-> X[i] * y[i]])
        sxx == IntSum([i \in 1..n |-> X[i] * X[i]])
        den == n * sxx - sx * sx
    IN  IF den = 0 THEN Zero ELSE Q(n * sxy - sx * sy, den)

ValidObs(g) == SelectSeq(g, LAMBDA r : QLt(Zero, r.units) /\ QLt(Zero, r.price))

\* mutant: the threshold is off by one
TooFew_OffByOne(g) == Len(g) < MinObservations - 1

TooFew(g) == Len(g) < MinObservations

ElasticityRow(g0, sku) ==
    LET g == ValidObs(g0)
    IN  IF TooFew(g)
        THEN [sku |-> sku, elasticity |-> Q(DefaultElasticity, 1)]
        ELSE [sku |-> sku,
              elasticity |-> FitSlope([i \in 1..Len(g) |-> LogPrice(g[i].price)],
                                      [i \in 1..Len(g) |-> LogUnits(g[i].units)])]

ElasticityGroups(t) == GroupKeys(t)

estimate_elasticity(t) ==
    LET keys == ElasticityGroups(t)
    IN  [k \in 1..Len(keys) |-> ElasticityRow(RowsOf(t, keys[k]), keys[k])]

(***************************************************************************)
(* demand.demand_at_price                                                  *)
(***************************************************************************)
demand_at_price(base_units, base_price, elasticity, new_price) ==
    QMul(base_units, QPow(QDiv(new_price, base_price), elasticity))

(***************************************************************************)
(* optimize.solve_prices: the candidate table                              *)
(***************************************************************************)
FillElasticity == -1

GridSteps == 10

EmptyTable == <<>>

WithElasticity(r, e) ==
    [sku |-> r.sku, base_price |-> r.base_price, base_units |-> r.base_units,
     cost |-> r.cost, elasticity |-> e]

\* mutant: an inner join, with nothing to fill
MergedRows_Inner(r, e) ==
    LET m == RowsOf(e, r.sku)
    IN  [j \in 1..Len(m) |-> WithElasticity(r, m[j].elasticity)]

\* One base row of base.merge(elas, on="sku", how="left").fillna(...): a
\* row per matching elasticity row, or one row with the fill value.
MergedRows(r, e) ==
    LET m == RowsOf(e, r.sku)
    IN  IF m = <<>>
        THEN <<WithElasticity(r, Q(FillElasticity, 1))>>
        ELSE [j \in 1..Len(m) |-> WithElasticity(r, m[j].elasticity)]

Merged(b, e) == Concat([i \in 1..Len(b) |-> MergedRows(b[i], e)])

\* round(x, 2).  An exact tie (x a whole number of hundredths plus half a
\* hundredth) goes where the binary float nearest to x lies, which the
\* rational value does not determine: tieUp is that outcome.
Round2(x, tieUp) ==
    LET y == QMul(x, Q(100, 1))
        f == y.num \div y.den
        r == y.num % y.den
    IN  IF 2 * r < y.den THEN Q(f, 100)
        ELSE IF 2 * r > y.den THEN Q(f + 1, 100)
        ELSE IF tieUp THEN Q(f + 1, 100) ELSE Q(f, 100)

PriceFloor(r, lo, mm) ==
    LET pmin_floor == QMul(r.cost, QAdd(One, mm))
        pmin_band == QMul(r.base_price, lo)
    IN  QMax(pmin_floor, pmin_band)

PriceCeiling(r, lo, hi, mm) ==
    LET pmin == PriceFloor(r, lo, mm)
        pmax == QMul(r.base_price, hi)
    IN  IF QLt(pmax, pmin) THEN pmin ELSE pmax

GridPoint(pmin, pmax, i, tieUp) ==
    Round2(QAdd(pmin, QDiv(QMul(QSub(pmax, pmin), Q(i, 1)), Q(GridSteps, 1))),
           tieUp)

RECURSIVE SortedSeq(_)
SortedSeq(S) ==
    IF S = {} THEN <<>>
    ELSE LET m == CHOOSE x \in S : \A y \in S : QLe(x, y)
         IN  <<m>> \o SortedSeq(S \ {m})

PriceGrid(r, lo, hi, mm, tieUp) ==
    LET pmin == PriceFloor(r, lo, mm)
        pmax == PriceCeiling(r, lo, hi, mm)
    IN  SortedSeq({GridPoint(pmin, pmax, i, tieUp) : i \in 0..GridSteps})

CandidateRow(r, p) ==
    LET q == QMax(Zero, demand_at_price(r.base_units, r.base_price,
                                        r.elasticity, p))
    IN  [sku |-> r.sku, price |-> p, qty |-> q,
         profit |-> QMul(QSub(p, r.cost), q)]

CandidateRows(r, lo, hi, mm, tieUp) ==
    LET grid == PriceGrid(r, lo, hi, mm, tieUp)
    IN  [k \in 1..Len(grid) |-> CandidateRow(r, grid[k])]

Candidates(m, lo, hi, mm, tieUp) ==
    Concat([i \in 1..Len(m) |-> CandidateRows(m[i], lo, hi, mm, tieUp)])

(***************************************************************************)
(* optimize.solve_prices: the assignment program and its solution.  The    *)
(* solver is a library; what it reports is the set s of the indices i      *)
(* with x[i].varValue == 1.                                                *)
(***************************************************************************)
Indices(c) == 1..Len(c)

\* prob += lpSum(x[i] for i in g.index) == 1, for every SKU group
Feasible(c, s) ==
    \A sku \in SkusOf(c) : Cardinality({i \in s : c[i].sku = sku}) = 1

\* mutant: the objective weighs each candidate by its price
ObjectiveTerm_Price(row) == row.price

ObjectiveTerm(row) == row.profit

\* prob += lpSum(x[i] * cand.loc[i, "profit"] for i in x)
Objective(c, s) ==
    LET idx == SelectSeq([i \in 1..Len(c) |-> i], LAMBDA i : i \in s)
    IN  QSum([k \in 1..Len(idx) |-> ObjectiveTerm(c[idx[k]])])

\* s is an optimal solution of the LpMaximize program
Optimal(c, s) ==
    /\ s \subseteq Indices(c)
    /\ Feasible(c, s)
    /\ \A t \in SUBSET Indices(c) :
          Feasible(c, t) => QLe(Objective(c, t), Objective(c, s))

ChosenRow(row) ==
    [sku |-> row.sku, opt_price |-> row.price, opt_qty |-> row.qty,
     opt_profit |-> row.profit]

Chosen(c, s) ==
    LET idx == SelectSeq([i \in 1..Len(c) |-> i], LAMBDA i : i \in s)
    IN  [k \in 1..Len(idx) |-> ChosenRow(c[idx[k]])]

\* mutant: the fallback profit is the unit margin, not multiplied by the quantity
FallbackRow_UnitMargin(r) ==
    [sku |-> r.sku, opt_price |-> r.base_price, opt_qty |-> r.base_units,
     opt_profit |-> QSub(r.base_price, r.cost)]

FallbackRow(r) ==
    [sku |-> r.sku, opt_price |-> r.base_price, opt_qty |-> r.base_units,
     opt_profit |-> QMul(QSub(r.base_price, r.cost), r.base_units)]

Fallback(m) == [i \in 1..Len(m) |-> FallbackRow(m[i])]

\* mutant: no fallback when nothing is selected
SolveResult_NoFallback(m, c, s) ==
    IF m = <<>> \/ c = <<>> THEN EmptyTable ELSE Chosen(c, s)

SolveResult(m, c, s) ==
    IF m = <<>> \/ c = <<>> THEN EmptyTable
    ELSE IF Chosen(c, s) = <<>> THEN Fallback(m)
    ELSE Chosen(c, s)

(***************************************************************************)
(* report.summarize                                                        *)
(***************************************************************************)
ReportRow(b, ch) ==
    LET base_profit == QMul(QSub(b.base_price, b.cost), b.base_units)
    IN  [sku |-> b.sku, base_price |-> b.base_price,
         base_units |-> b.base_units, cost |-> b.cost,
         opt_price |-> ch.opt_price, opt_qty |-> ch.opt_qty,
         opt_profit |-> ch.opt_profit,
         base_profit |-> base_profit,
         delta_profit |-> QSub(ch.opt_profit, base_profit),
         delta_price_pct |->
             QMul(QSub(QDiv(ch.opt_price, b.base_price), One), Q(100, 1))]

\* base.merge(chosen, on="sku"): the inner join, in the order of base
JoinRows(b, ch) ==
    LET m == RowsOf(ch, b.sku)
    IN  [j \in 1..Len(m) |-> ReportRow(b, m[j])]

Joined(b, ch) == Concat([i \in 1..Len(b) |-> JoinRows(b[i], ch)])

\* whether row a goes before row b in sort_values("delta_profit",
\* ascending=False)
\* mutant: ascending order
Before_Ascending(a, b) == QLt(a.delta_profit, b.delta_profit)

Before(a, b) == QLt(b.delta_profit, a.delta_profit)

RECURSIVE Insert(_, _)
Insert(r, sorted) ==
    IF sorted = <<>> THEN <<r>>
    ELSE IF Before(r, Head(sorted)) THEN <<r>> \o sorted
    ELSE <<Head(sorted)>> \o Insert(r, Tail(sorted))

\* rows of equal delta_profit keep their join order (the order pandas
\* gives ties is not specified)
RECURSIVE SortValues(_)
SortValues(t) ==
    IF t = <<>> THEN <<>>
    ELSE Insert(t[Len(t)], SortValues(SubSeq(t, 1, Len(t) - 1)))

summarize(b, ch) == SortValues(Joined(b, ch))

(***************************************************************************)
(* Inputs.  Prices and costs are whole hundredths of the currency unit,    *)
(* unit counts are whole numbers; the slider values are those of app.py's  *)
(* sliders (default 70, 130 and 5).                                        *)
(***************************************************************************)
LbChoices == {70, 100}

UbChoices == {100, 130}

MarginChoices == {0, 5, 50}

Pct(n) == Q(n, 100)

RECURSIVE SortedIdx(_, _, _)
\* the nondecreasing sequences of length n over lo..hi
SortedIdx(n, lo, hi) ==
    IF n = 0 THEN {<<>>}
    ELSE UNION {{<<k>> \o t : t \in SortedIdx(n - 1, k, hi)} : k \in lo..hi}

\* The tables of at most MaxRows rows drawn from the row list rows, up to
\* the order of their rows.
TablesOver(rows) ==
    UNION {{[i \in 1..n |-> rows[ix[i]]] : ix \in SortedIdx(n, 1, Len(rows))} :
           n \in 0..MaxRows}

RawRow(date, sku, price, units, cost) ==
    [date |-> date, sku |-> sku, price |-> Cents(price),
     units |-> Q(units, 1), cost |-> Cents(cost)]

RECURSIVE SetToSeq(_)
SetToSeq(S) ==
    IF S = {} THEN <<>>
    ELSE LET x == CHOOSE y \in S : TRUE IN <<x>> \o SetToSeq(S \ {x})

\* the unit cost of a SKU on a date, in hundredths
CostOn(sku, date) == IF (sku = Skus[1]) = (date = 1) THEN 1 ELSE 3

\* cleaned histories for the estimators
DataRows ==
    SetToSeq({WithDerived(RawRow(d, s, p, u, CostOn(s, d))) :
              d \in Dates, s \in SkuSet, p \in {2, 4}, u \in {0, 1, 4}})

\* uploaded histories for the caller flow; a price of 0 is dropped on load
FlowRows ==
    SetToSeq({RawRow(1, s, p, u, 1) : s \in SkuSet, p \in {0, 4}, u \in {0, 4}})

RECURSIVE KeyedTables(_, _)
\* the tables holding at most one row per SKU, in key order, the row of
\* SKU s drawn from rowsOf[s]
KeyedTables(keys, rowsOf) ==
    IF keys = <<>> THEN {<<>>}
    ELSE LET rest == KeyedTables(Tail(keys), rowsOf)
         IN  rest \cup {<<r>> \o t : r \in rowsOf[Head(keys)], t \in rest}

BaseTables ==
    KeyedTables(Skus,
        [s \in SkuSet |->
            {[sku |-> s, base_price |-> Cents(p), base_units |-> Q(u, 1),
              cost |-> Cents(c)] : p \in {2, 4}, u \in {1, 4}, c \in {1, 3}}])

ElasTables ==
    KeyedTables(Skus,
        [s \in SkuSet |->
            {[sku |-> s, elasticity |-> Q(e, 1)] : e \in {-2, 1}}])

(***************************************************************************)
(* The caller flow of app.py, one action per step of the script.           *)
(***************************************************************************)
\* app.py 21-29
LoadSales ==
    /\ pc = "load"
    /\ df' = load_sales(raw)
    /\ pc' = "elasticity"
    /\ UNCHANGED <<raw, elas, base, lb, ub, min_margin, cand, sel, chosen, rep>>

\* app.py 43
EstimateElasticity ==
    /\ pc = "elasticity"
    /\ elas' = estimate_elasticity(df)
    /\ pc' = "baseline"
    /\ UNCHANGED <<raw, df, base, lb, ub, min_margin, cand, sel, chosen, rep>>

\* app.py 63-66
LatestBaseline ==
    /\ pc = "baseline"
    /\ base' = latest_baseline(df)
    /\ pc' = IF base' = <<>> THEN "stopped" ELSE "rules"
    /\ UNCHANGED <<raw, df, elas, lb, ub, min_margin, cand, sel, chosen, rep>>

\* app.py 71-73
SetRules ==
    /\ pc = "rules"
    /\ lb' \in LbChoices
    /\ ub' \in UbChoices
    /\ min_margin' \in MarginChoices
    /\ pc' = "button"
    /\ UNCHANGED <<raw, df, elas, base, cand, sel, chosen, rep>>

\* app.py 78, the button not pressed: the script ends
Idle ==
    /\ pc = "button"
    /\ pc' = "idle"
    /\ UNCHANGED <<raw, df, elas, base, lb, ub, min_margin, cand, sel, chosen, rep>>

\* app.py 78-83: solve_prices(base, elas, (lb/100, ub/100), min_margin/100)
PressSolve ==
    /\ pc = "button"
    /\ \E tieUp \in BOOLEAN :
       \E m \in {Merged(base, elas)} :
       \E c \in {IF m = <<>> THEN <<>>
                 ELSE Candidates(m, Pct(lb), Pct(ub), Pct(min_margin), tieUp)} :
       \E s \in SUBSET Indices(c) :
            /\ cand' = c
            /\ sel' = s
            /\ chosen' = SolveResult(m, c, s)
    /\ pc' = "solved"
    /\ UNCHANGED <<raw, df, elas, base, lb, ub, min_margin, rep>>

\* app.py 84-87
Summarize ==
    /\ pc = "solved"
    /\ IF chosen = <<>>
       THEN pc' = "nosolution" /\ rep' = rep
       ELSE pc' = "summarized" /\ rep' = summarize(base, chosen)
    /\ UNCHANGED <<raw, df, elas, base, lb, ub, min_margin, cand, sel, chosen>>

\* numpy's round: to the nearest whole number, an exact half to the even one
RoundInt(x) ==
    LET f == x.num \div x.den
        r == x.num % x.den
    IN  IF 2 * r < x.den THEN f
        ELSE IF 2 * r > x.den THEN f + 1
        ELSE IF f % 2 = 0 THEN f ELSE f + 1

RoundedRow(r) ==
    [r EXCEPT !.opt_qty = Q(RoundInt(r.opt_qty), 1),
              !.base_units = Q(RoundInt(r.base_units), 1)]

\* app.py 88-92
RoundQuantities ==
    /\ pc = "summarized"
    /\ rep' = [i \in 1..Len(rep) |-> RoundedRow(rep[i])]
    /\ pc' = "done"
    /\ UNCHANGED <<raw, df, elas, base, lb, ub, min_margin, cand, sel, chosen>>

Init ==
    /\ pc = "load"
    /\ raw \in TablesOver(FlowRows)
    /\ df = <<>> /\ elas = <<>> /\ base = <<>>
    /\ lb = 0 /\ ub = 0 /\ min_margin = 0
    /\ cand = <<>> /\ sel = {} /\ chosen = <<>> /\ rep = <<>>

Next ==
    \/ LoadSales
    \/ EstimateElasticity
    \/ LatestBaseline
    \/ SetRules
    \/ Idle
    \/ PressSolve
    \/ Summarize
    \/ RoundQuantities

Spec == Init /\ [][Next]_vars

(***************************************************************************)
(* The estimators as functions of a cleaned history.                       *)
(***************************************************************************)
InitData ==
    /\ pc = "elasticity"
    /\ df \in TablesOver(DataRows)
    /\ raw = <<>> /\ elas = <<>> /\ base = <<>>
    /\ lb = 0 /\ ub = 0 /\ min_margin = 0
    /\ cand = <<>> /\ sel = {} /\ chosen = <<>> /\ rep = <<>>

NextData ==
    \/ EstimateElasticity
    \/ LatestBaseline

SpecData == InitData /\ [][NextData]_vars

(***************************************************************************)
(* solve_prices and summarize as functions of a baseline, an elasticity    *)
(* table (one row per SKU at most, as estimate_elasticity returns it) and  *)
(* the rules.                                                              *)
(***************************************************************************)
InitSolve ==
    /\ pc = "button"
    /\ base \in BaseTables
    /\ elas \in ElasTables
    /\ lb \in LbChoices
    /\ ub \in UbChoices
    /\ min_margin \in MarginChoices
    /\ raw = <<>> /\ df = <<>>
    /\ cand = <<>> /\ sel = {} /\ chosen = <<>> /\ rep = <<>>

NextSolve ==
    \/ PressSolve
    \/ Summarize

SpecSolve == InitSolve /\ [][NextSolve]_vars

(***************************************************************************)
(* Properties.                                                             *)
(***************************************************************************)
Solved == pc \in {"solved", "summarized", "nosolution", "done"}

CountRows(t, sku) == Cardinality({i \in 1..Len(t) : t[i].sku = sku})

BaseOf(sku) == base[CHOOSE i \in 1..Len(base) : base[i].sku = sku]

MarginFloor(r) == QMul(r.cost, QAdd(One, Pct(min_margin)))

\* C1: for every outcome of the solve step, the table solve_prices returns
\* holds exactly one row for every SKU of the candidate table, and is empty
\* only when the candidate table is empty.
C1_OneRowPerSku ==
    Solved =>
        /\ \A sku \in SkusOf(cand) : CountRows(chosen, sku) = 1
        /\ SkusOf(chosen) \subseteq SkusOf(cand)
        /\ (chosen = <<>> => cand = <<>>)

\* C2: when the assignment program is solved to optimality, the opt_profit
\* returned for each SKU is the largest predicted profit among that SKU's
\* candidates.
C2_OptimalIsArgmax ==
    (Solved /\ Optimal(cand, sel)) =>
        \A sku \in SkusOf(cand) :
            /\ CountRows(chosen, sku) = 1
            /\ \A j \in 1..Len(chosen) : chosen[j].sku = sku =>
                /\ \A i \in 1..Len(cand) : cand[i].sku = sku =>
                       QLe(cand[i].profit, chosen[j].opt_profit)
                /\ \E i \in 1..Len(cand) :
                       /\ cand[i].sku = sku
                       /\ cand[i].profit = chosen[j].opt_profit

\* C2 witness: an optimal solve of a SKU whose middle candidate is strictly
\* the most profitable, and is the one returned.
C2_Witness ==
    /\ Solved
    /\ Optimal(cand, sel)
    /\ \E i \in 1..Len(cand) : \E j \in 1..Len(cand) : \E k \in 1..Len(cand) :
          /\ i < j /\ j < k
          /\ cand[i].sku = cand[j].sku /\ cand[j].sku = cand[k].sku
          /\ QLt(cand[i].profit, cand[j].profit)
          /\ QLt(cand[k].profit, cand[j].profit)
          /\ \E n \in 1..Len(chosen) :
                /\ chosen[n].sku = cand[j].sku
                /\ chosen[n].opt_price = cand[j].price

\* C3: when the candidate table is non-empty and the solve selects nothing,
\* solve_prices returns, for every SKU of the baseline, a row priced at
\* base_price with opt_qty = base_units and
\* opt_profit = (base_price - cost) * base_units.
C3_FallbackIsBaseline ==
    (Solved /\ cand # <<>> /\ sel = {}) =>
        /\ Len(chosen) = Len(base)
        /\ \A i \in 1..Len(base) :
              /\ chosen[i].sku = base[i].sku
              /\ chosen[i].opt_price = base[i].base_price
              /\ chosen[i].opt_qty = base[i].base_units
              /\ chosen[i].opt_profit =
                    QSub(QMul(base[i].base_price, base[i].base_units),
                         QMul(base[i].cost, base[i].base_units))

\* C3 witness: a solve of two SKUs that selected nothing, answered with the
\* baseline, one of the rows at a loss.
C3_Witness ==
    /\ Solved /\ cand # <<>> /\ sel = {}
    /\ Len(chosen) = 2
    /\ \E i \in 1..2 : QLt(chosen[i].opt_profit, Zero)
    /\ \E i \in 1..2 : QLt(Zero, chosen[i].opt_profit)

\* C4: every candidate price lies within [floor, ceiling] of its SKU, with
\* floor = max(cost*(1+min_margin_pct), base_price*lowPct) and
\* ceiling = max(floor, base_price*highPct); in particular it is at least
\* cost*(1+min_margin_pct).
C4_PricesWithinBounds ==
    Solved =>
        \A i \in 1..Len(cand) :
            LET r == BaseOf(cand[i].sku)
                floor == QMax(MarginFloor(r), QMul(r.base_price, Pct(lb)))
                ceiling == QMax(floor, QMul(r.base_price, Pct(ub)))
            IN  /\ QLe(floor, cand[i].price)
                /\ QLe(cand[i].price, ceiling)
                /\ QLe(MarginFloor(r), cand[i].price)

\* C5: when the margin floor cost*(1+min_margin_pct) exceeds
\* base_price*highPct, the SKU has a single candidate, priced at the floor,
\* and that price is the SKU's opt_price when the solve is optimal.
C5_CollapseToFloor ==
    Solved =>
        \A n \in 1..Len(base) :
            QLt(QMul(base[n].base_price, Pct(ub)), MarginFloor(base[n])) =>
                /\ CountRows(cand, base[n].sku) = 1
                /\ \A i \in 1..Len(cand) : cand[i].sku = base[n].sku =>
                       cand[i].price =
                           QMax(MarginFloor(base[n]),
                                QMul(base[n].base_price, Pct(lb)))
                /\ Optimal(cand, sel) =>
                       \A j \in 1..Len(chosen) : chosen[j].sku = base[n].sku =>
                           chosen[j].opt_price =
                               QMax(MarginFloor(base[n]),
                                    QMul(base[n].base_price, Pct(lb)))

Estimated == pc # "elasticity"

ValidCount(sku) ==
    Cardinality({i \in 1..Len(df) :
                    /\ df[i].sku = sku
                    /\ df[i].price.num > 0
                    /\ df[i].units.num > 0})

\* C6: estimate_elasticity returns exactly one row for every SKU of its
\* input, and elasticity -1 for every SKU with fewer than 3 observations
\* having price > 0 and units > 0.
C6_ElasticityRows ==
    Estimated =>
        /\ SkusOf(elas) = SkusOf(df)
        /\ \A sku \in SkusOf(df) : CountRows(elas, sku) = 1
        /\ \A i \in 1..Len(elas) :
              ValidCount(elas[i].sku) < 3 => elas[i].elasticity = Q(-1, 1)

\* C6 witness: a SKU none of whose rows has units > 0, and another with
\* exactly two valid observations lying on a line of slope 2.
C6_Witness ==
    /\ Estimated
    /\ \E i \in 1..Len(elas) : \E j \in 1..Len(elas) :
          /\ ValidCount(elas[i].sku) = 0
          /\ elas[i].elasticity = Q(-1, 1)
          /\ ValidCount(elas[j].sku) = 2
          /\ elas[j].elasticity = Q(-1, 1)
          /\ \E a \in 1..Len(df) : \E b \in 1..Len(df) :
                /\ df[a].sku = elas[j].sku /\ df[b].sku = elas[j].sku
                /\ df[a].price = Cents(2) /\ df[a].units = Q(1, 1)
                /\ df[b].price = Cents(4) /\ df[b].units = Q(4, 1)

Baselined == pc \notin {"load", "elasticity", "baseline"}

\* the rows of df that belong to sku and carry its latest date
AtMaxDate(sku) ==
    {i \in 1..Len(df) :
        /\ df[i].sku = sku
        /\ \A j \in 1..Len(df) : df[j].sku = sku => df[j].date <= df[i].date}

RECURSIVE SumAt(_, _)
SumAt(S, f) ==
    IF S = {} THEN Zero
    ELSE LET i == CHOOSE x \in S : TRUE
         IN  QAdd(df[i][f], SumAt(S \ {i}, f))

IsMeanAt(v, S, f) == QMul(v, Q(Cardinality(S), 1)) = SumAt(S, f)

\* C7: latest_baseline returns exactly one row per distinct SKU of its
\* input, holding the means of price, units and cost over exactly the
\* SKU's observations at its maximum date; an empty input gives an empty
\* baseline.
C7_BaselineIsLatestMean ==
    Baselined =>
        /\ SkusOf(base) = SkusOf(df)
        /\ \A sku \in SkusOf(df) : CountRows(base, sku) = 1
        /\ \A n \in 1..Len(base) :
              LET S == AtMaxDate(base[n].sku)
              IN  /\ IsMeanAt(base[n].base_price, S, "price")
                  /\ IsMeanAt(base[n].base_units, S, "units")
                  /\ IsMeanAt(base[n].cost, S, "cost")
        /\ (df = <<>> => base = <<>>)

\* C7 witness: a SKU with two rows at its latest date, priced 0.02 and
\* 0.04, and an older row; its base_price is 0.03.
C7_Witness ==
    /\ Baselined
    /\ \E n \in 1..Len(base) :
          /\ base[n].base_price = Cents(3)
          /\ Cardinality(AtMaxDate(base[n].sku)) = 2
          /\ CountRows(df, base[n].sku) = 3
          /\ \E i \in AtMaxDate(base[n].sku) : df[i].price = Cents(2)
          /\ \E i \in 1..Len(df) :
                /\ df[i].sku = base[n].sku
                /\ i \notin AtMaxDate(base[n].sku)
                /\ df[i].price = Cents(2)
                /\ df[i].cost # base[n].cost

\* C8: summarize returns rows only for SKUs present in both the baseline
\* and the chosen table, one per pair of matching rows, each with
\* base_profit = (base_price - cost) * base_units and
\* delta_profit = opt_profit - base_profit, ordered non-increasing by
\* delta_profit.
C8_ReportRows ==
    pc = "summarized" =>
        /\ SkusOf(rep) = SkusOf(base) \cap SkusOf(chosen)
        /\ \A sku \in SkusOf(base) : CountRows(rep, sku) = CountRows(chosen, sku)
        /\ \A i \in 1..Len(rep) :
              LET b == BaseOf(rep[i].sku)
              IN  /\ rep[i].base_price = b.base_price
                  /\ rep[i].base_units = b.base_units
                  /\ rep[i].cost = b.cost
                  /\ rep[i].base_profit =
                        QMul(QSub(b.base_price, b.cost), b.base_units)
                  /\ \E j \in 1..Len(chosen) :
                        /\ chosen[j].sku = rep[i].sku
                        /\ chosen[j].opt_price = rep[i].opt_price
                        /\ chosen[j].opt_profit = rep[i].opt_profit
                  /\ QAdd(rep[i].delta_profit, rep[i].base_profit) =
                        rep[i].opt_profit
        /\ \A i \in 1..Len(rep) : \A j \in 1..Len(rep) :
              i < j => QLe(rep[j].delta_profit, rep[i].delta_profit)

\* C8 witness: a report of two rows brought into descending delta_profit
\* against the order of the join, with a baseline SKU that has no chosen
\* row left out.
C8_Witness ==
    /\ pc = "summarized"
    /\ Len(base) = 2
    /\ Len(rep) = 2
    /\ SkusOf(rep) # SkusOf(base)
    /\ QLt(rep[2].delta_profit, rep[1].delta_profit)
    /\ QLt(rep[2].opt_price, rep[1].opt_price)

\* C9: the candidate table holds, for every baseline row, one SKU group of
\* at least 1 and at most 11 distinct prices; a SKU absent from the
\* elasticity table is evaluated with elasticity -1, that is
\* qty = base_units * base_price / price.
C9_CandidateGroups ==
    Solved =>
        /\ SkusOf(cand) = SkusOf(base)
        /\ \A n \in 1..Len(base) :
              /\ CountRows(cand, base[n].sku) \in 1..11
              /\ \A i \in 1..Len(cand) : \A j \in 1..Len(cand) :
                    (i # j /\ cand[i].sku = base[n].sku
                           /\ cand[j].sku = base[n].sku) =>
                        cand[i].price # cand[j].price
              /\ base[n].sku \notin SkusOf(elas) =>
                    \A i \in 1..Len(cand) : cand[i].sku = base[n].sku =>
                        QMul(cand[i].qty, cand[i].price) =
                            QMul(base[n].base_units, base[n].base_price)

\* C9 witness: a SKU absent from the elasticity table with three
\* candidates, beside a SKU whose range collapsed to one candidate.
C9_Witness ==
    /\ Solved
    /\ \E n \in 1..Len(base) : \E m \in 1..Len(base) :
          /\ base[n].sku \notin SkusOf(elas)
          /\ CountRows(cand, base[n].sku) = 3
          /\ base[m].sku \in SkusOf(elas)
          /\ CountRows(cand, base[m].sku) = 1

\* C10: in the caller flow solve_prices runs only on a computed, non-empty
\* baseline (an empty baseline stops the run with nothing optimized),
\* summarize runs only on a non-empty chosen table, and the 'No solution
\* found' branch is never reached.
C10_CallerFlow ==
    /\ pc # "nosolution"
    /\ pc \in {"solved", "summarized", "done"} =>
          /\ base # <<>>
          /\ base = latest_baseline(df)
          /\ chosen # <<>>
    /\ pc \in {"summarized", "done"} => rep # <<>>
    /\ pc = "stopped" =>
          /\ base = <<>> /\ cand = <<>> /\ chosen = <<>> /\ rep = <<>>
    /\ base = <<>> => pc \in {"load", "elasticity", "baseline", "stopped"}

\* C10 witness: a run in which the solve selected nothing and the report
\* was still built, from the baseline fallback.
C10_Witness ==
    /\ pc = "done"
    /\ sel = {}
    /\ Len(rep) = 2

====
